---- MODULE Spec2Model ----
(***************************************************************************)
(* Model of decay (src/main.rs): a single-threaded run that walks a        *)
(* maildir, decides per message whether it is old enough to retire, pipes  *)
(* retiring messages through formail into the destination writer and then  *)
(* deletes them from the maildir.                                          *)
(*                                                                         *)
(* The destination is modelled down to the layers main.rs stacks up:       *)
(* io::sink(), or File <- BufWriter [<- GzEncoder].  `file` holds what    *)
(* was handed to the operating system's write call, `buf` what sits in the *)
(* BufWriter, `enc` what the gzip encoder still holds.                     *)
(***************************************************************************)
EXTENDS Integers, Sequences, FiniteSets, TLC

\* ---------------------------------------------------------------- bounds
\* Largest number of directory entries in cur/ and new/ together.
MaxMails == 2
\* Capacity of the BufWriter, in the unit message lengths are counted in.
BufCapacity == 2

\* SystemTime::now() as seconds since the epoch (2026-11-04 00:00:00 UTC).
NowSecs == 1793750400
\* Values of --age the runs are started with (24000 days reach before 1970).
Ages == {0, 30, 24000}
\* Lengths of formail's output: one that fits the buffer, one that does not.
Lengths == {1, BufCapacity}

VARIABLES
    opts,         \* the parsed command line (struct Opts)
    pc,           \* position of main; at the end "done" (exit status 0),
                  \* "failed" (main returned Err) or "panicked"
    dest,         \* "none", "discard", "plain" or "gz": what destination() built
    hdr_pending,  \* gz only: the gzip header has not been written yet
    enc,          \* gz only: entries the encoder has consumed and not emitted
    buf,          \* entries in the BufWriter's buffer
    file,         \* entries handed to the OS write call on the archive file
    file_exists,  \* the archive file exists on disk
    file_existed, \* ... and whether it did when the run started
    dir,          \* [ncur, nnew]: the entries the maildir held at the start
    store,        \* identities of the messages still in the maildir
    criteria,     \* struct Criteria, and whether it was built or new() panicked
    idx,          \* items the traversal has yielded so far
    mail,         \* loop variable: the Err or the MailInfo of the current item
    filtered,     \* length of the formail output of the current message
    log,          \* what the loop did so far: one [id, ev] per outcome of a step
    archived, kept, parse_err, move_err

vars == <<opts, pc, dest, hdr_pending, enc, buf, file, file_exists,
          file_existed, dir, store, criteria, idx, mail, filtered, log,
          archived, kept, parse_err, move_err>>

sinkVars == <<dest, hdr_pending, enc, buf, file, file_exists>>
countVars == <<archived, kept, parse_err, move_err>>

Ids == 1..MaxMails

\* The entries of cur/ are 1..ncur, those of new/ follow them.
InCur(m) == m <= dir.ncur
InNew(m) == m > dir.ncur /\ m <= dir.ncur + dir.nnew

\* ------------------------------------------------- the destination writer
Entry(m, p, n) == [id |-> m, part |-> p, len |-> n]
GzHeader == Entry(0, "hdr", 1)
GzTrailer == Entry(0, "trl", 1)
Partial(e) == [e EXCEPT !.part = "partial"]

RECURSIVE BufLen(_)
BufLen(b) == IF b = <<>> THEN 0 ELSE Head(b).len + BufLen(Tail(b))

Res(ok, b, f) == [ok |-> ok, buf |-> b, file |-> f]

\* BufWriter::flush_buf: hands the buffer to the file; an OS error leaves the
\* part already written in the file and the rest in the buffer.
FlushBuf(b, f) ==
    {Res(TRUE, <<>>, f \o b)} \cup
    {Res(FALSE, SubSeq(b, k + 1, Len(b)), f \o SubSeq(b, 1, k)) : k \in 0..(Len(b) - 1)}

\* The flush BufWriter does before taking data that does not fit the spare
\* room of the buffer.
MakeRoom(b, f, e) ==
    IF BufLen(b) + e.len > BufCapacity THEN FlushBuf(b, f) ELSE {Res(TRUE, b, f)}

\* BufWriter::write: make room, then write through when the data is at least
\* one buffer long, else only buffer it.  A failed write takes nothing.
BufWrite(b, f, e) ==
    UNION {IF ~r.ok THEN {r}
           ELSE IF e.len >= BufCapacity
                THEN {Res(TRUE, r.buf, r.file \o <<e>>), Res(FALSE, r.buf, r.file)}
                ELSE {Res(TRUE, r.buf \o <<e>>, r.file)} : r \in MakeRoom(b, f, e)}

\* BufWriter::write_all: as write, but data written through may also fail
\* after a part of it reached the file.
BufWriteAll(b, f, e) ==
    BufWrite(b, f, e) \cup
    {Res(FALSE, r.buf, r.file \o <<Partial(e)>>)
     : r \in {q \in MakeRoom(b, f, e) : q.ok /\ e.len >= BufCapacity}}

\* The encoder passing a run of entries on to the BufWriter (with write, what
\* was taken being dropped from the run), stopping at the first error; rest
\* is what was not taken.
RECURSIVE PushSeq(_, _, _)
PushSeq(b, f, s) ==
    IF s = <<>> THEN {[ok |-> TRUE, buf |-> b, file |-> f, rest |-> <<>>]}
    ELSE UNION {IF r.ok THEN PushSeq(r.buf, r.file, Tail(s))
                ELSE {[ok |-> FALSE, buf |-> r.buf, file |-> r.file, rest |-> s]}
                : r \in BufWrite(b, f, Head(s))}

GzRes(ok, h, en, b, f) == [ok |-> ok, hdr |-> h, enc |-> en, buf |-> b, file |-> f]

\* GzEncoder::write_all: the header goes out first; the encoder then passes on
\* some of what it holds (how much depends on the data) and consumes the new
\* data, which itself stays inside the encoder.
GzWriteAll(h, en, b, f, e) ==
    LET hd == IF h THEN BufWrite(b, f, GzHeader) ELSE {Res(TRUE, b, f)}
    IN UNION {IF ~r.ok THEN {GzRes(FALSE, h, en, r.buf, r.file)}
              ELSE UNION {
                  {IF p.ok
                   THEN GzRes(TRUE, FALSE, SubSeq(en, k + 1, Len(en)) \o <<e>>, p.buf, p.file)
                   ELSE GzRes(FALSE, FALSE, p.rest \o SubSeq(en, k + 1, Len(en)), p.buf, p.file)
                   : p \in PushSeq(r.buf, r.file, SubSeq(en, 1, k))}
                  : k \in 0..Len(en)}
              : r \in hd}

\* Write::write_all on the boxed destination.
DestWriteAll(kind, h, en, b, f, e) ==
    CASE kind = "discard" -> {GzRes(TRUE, h, en, b, f)}
      [] kind = "plain" -> {GzRes(r.ok, h, en, r.buf, r.file) : r \in BufWriteAll(b, f, e)}
      [] kind = "gz" -> GzWriteAll(h, en, b, f, e)

\* Dropping the destination: GzEncoder::drop tries to finish the stream
\* (header if still pending, the held data, the trailer), BufWriter::drop
\* flushes; both discard the error.  The result is the file's final content.
DestDrop(kind, h, en, b, f) ==
    CASE kind \in {"none", "discard"} -> {f}
      [] kind = "plain" -> {r.file : r \in FlushBuf(b, f)}
      [] kind = "gz" ->
            LET hd == IF h THEN BufWrite(b, f, GzHeader) ELSE {Res(TRUE, b, f)}
                fin == UNION {IF ~r.ok THEN {r}
                              ELSE {Res(p.ok, p.buf, p.file)
                                    : p \in PushSeq(r.buf, r.file, en \o <<GzTrailer>>)}
                              : r \in hd}
            IN UNION {{q.file : q \in FlushBuf(r.buf, r.file)} : r \in fin}

\* ------------------------------------------------------------ the policy
\* Variant of Criteria_new: must_seen is stored negated.
Criteria_new_inverted(age, must_seen) ==
    LET before == NowSecs - 3600 * 24 * age
    IN IF before < 0 THEN [state |-> "panic", before |-> 0, must_seen |-> ~must_seen]
       ELSE [state |-> "built", before |-> before, must_seen |-> ~must_seen]

\* Criteria::new.  now - age days; a result before the epoch makes
\* duration_since fail and the expect panic.
Criteria_new(age, must_seen) ==
    LET before == NowSecs - 3600 * 24 * age
    IN IF before < 0 THEN [state |-> "panic", before |-> 0, must_seen |-> must_seen]
       ELSE [state |-> "built", before |-> before, must_seen |-> must_seen]

\* Variant of should_archive: the cutoff instant itself counts as too new.
should_archive_strict(c, info) ==
    LET old == info.date_resolved < c.before
    IN old /\ (~c.must_seen \/ info.seen) /\ ~info.flagged

\* Variant of should_archive: the flagged mark is not looked at.
should_archive_noflag(c, info) ==
    LET old == info.date_resolved <= c.before
    IN old /\ (~c.must_seen \/ info.seen)

\* Criteria::should_archive.
should_archive(c, info) ==
    LET old == info.date_resolved <= c.before
    IN old /\ (~c.must_seen \/ info.seen) /\ ~info.flagged

\* ------------------------------------------------------------- traversal
\* Variant of Total: list_new() is chained whether or not --new is given.
Total_both == dir.ncur + dir.nnew

\* list_cur(), chained with list_new() when --new is given.
Total == dir.ncur + (IF opts.new THEN dir.nnew ELSE 0)

ParseErrors == {"io_error", "broken_date", "cant_parse"}
NoMail == [kind |-> "none", id |-> 0, date_resolved |-> 0, seen |-> FALSE, flagged |-> FALSE]

\* MailInfo::new on the entry the iterator yields: the iterator's own error,
\* a failure of date() or parsed(), or the resolved MailInfo.  Dates are taken
\* around the cutoff.
MailInfo_new(m, c) ==
    {[NoMail EXCEPT !.kind = e, !.id = m] : e \in ParseErrors} \cup
    [kind : {"ok"}, id : {m}, date_resolved : {c.before - 1, c.before, c.before + 1},
     seen : BOOLEAN, flagged : BOOLEAN]

\* ------------------------------------------------------------- the log
\* ev is one of: "parse_err", "kept", "dry_run", "archive" (the decision of the
\* loop body for an item), "formail_ok", "formail_failed", "write_ok",
\* "write_failed" (the return of the step), "delete_ok", "delete_failed" (the
\* return of dir.delete, which was therefore called).
Ev(m, e) == [id |-> m, ev |-> e]
Logged(m, e) == \E i \in 1..Len(log) : log[i] = Ev(m, e)
Count(m, e) == Cardinality({i \in 1..Len(log) : log[i] = Ev(m, e)})
Deletes(m) == Count(m, "delete_ok") + Count(m, "delete_failed")

\* ----------------------------------------------------------------- state
Init ==
    /\ opts \in [maildir_is_dir : BOOLEAN, archive : {"none", "mbox", "gz"},
                 remove : BOOLEAN, confirm : BOOLEAN, new : BOOLEAN, age : Ages]
    /\ pc = "check"
    /\ dest = "none"
    /\ hdr_pending = FALSE
    /\ enc = <<>>
    /\ buf = <<>>
    /\ file = <<>>
    /\ file_existed \in BOOLEAN
    /\ file_exists = file_existed
    /\ dir \in {d \in [ncur : 0..MaxMails, nnew : 0..MaxMails] : d.ncur + d.nnew <= MaxMails}
    /\ store = 1..(dir.ncur + dir.nnew)
    /\ criteria = [state |-> "none", before |-> 0, must_seen |-> FALSE]
    /\ idx = 0
    /\ mail = NoMail
    /\ filtered = 0
    /\ log = <<>>
    /\ archived = 0
    /\ kept = 0
    /\ parse_err = 0
    /\ move_err = 0

\* Variant of Check: --archive together with --remove is let through.
Check_lenient ==
    /\ pc = "check"
    /\ IF opts.maildir_is_dir /\ ((opts.archive # "none") \/ opts.remove)
       THEN pc' = "destination"
       ELSE pc' = "failed"
    /\ UNCHANGED <<opts, sinkVars, file_existed, dir, store, criteria, idx, mail,
                   filtered, log, countVars>>

\* Opts::check and the ? on it in main.
Check ==
    /\ pc = "check"
    /\ IF opts.maildir_is_dir /\ ((opts.archive # "none") # opts.remove)
       THEN pc' = "destination"
       ELSE pc' = "failed"
    /\ UNCHANGED <<opts, sinkVars, file_existed, dir, store, criteria, idx, mail,
                   filtered, log, countVars>>

\* Opts::destination and the ? on it in main: io::sink() for --remove, else the
\* archive opened for append (created when absent), behind a BufWriter and,
\* for a .gz name, a GzEncoder.
Destination ==
    /\ pc = "destination"
    /\ IF opts.remove
       THEN /\ dest' = "discard"
            /\ pc' = "criteria"
            /\ UNCHANGED <<hdr_pending, file_exists>>
       ELSE \E opened \in BOOLEAN :
            IF opened
            THEN /\ file_exists' = TRUE
                 /\ dest' = IF opts.archive = "gz" THEN "gz" ELSE "plain"
                 /\ hdr_pending' = (opts.archive = "gz")
                 /\ pc' = "criteria"
            ELSE /\ pc' = "failed"
                 /\ UNCHANGED <<dest, hdr_pending, file_exists>>
    /\ UNCHANGED <<opts, enc, buf, file, file_existed, dir, store, criteria, idx,
                   mail, filtered, log, countVars>>

\* The listing and Criteria::new(opts.age, !opts.new); a panic unwinds main and
\* drops the destination.
MakeCriteria ==
    /\ pc = "criteria"
    /\ criteria' = Criteria_new(opts.age, ~opts.new)
    /\ IF criteria'.state = "panic"
       THEN /\ pc' = "panicked"
            /\ file' \in DestDrop(dest, hdr_pending, enc, buf, file)
            /\ buf' = <<>>
            /\ enc' = <<>>
       ELSE /\ pc' = "loop"
            /\ UNCHANGED <<file, buf, enc>>
    /\ UNCHANGED <<opts, dest, hdr_pending, file_exists, file_existed, dir, store,
                   idx, mail, filtered, log, countVars>>

\* Variant of ParseErrorArm: the unparsed message also counts as kept.
ParseErrorArm_kept(item) ==
    /\ parse_err' = parse_err + 1
    /\ kept' = kept + 1
    /\ log' = Append(log, Ev(item.id, "parse_err"))
    /\ pc' = "loop"
    /\ UNCHANGED <<archived, move_err>>

\* The Err arm of the match on the item: log it, count a parse error.
ParseErrorArm(item) ==
    /\ parse_err' = parse_err + 1
    /\ log' = Append(log, Ev(item.id, "parse_err"))
    /\ pc' = "loop"
    /\ UNCHANGED <<archived, kept, move_err>>

\* The else of should_archive.
KeptArm(item) ==
    /\ kept' = kept + 1
    /\ log' = Append(log, Ev(item.id, "kept"))
    /\ pc' = "loop"
    /\ UNCHANGED <<archived, parse_err, move_err>>

\* Variant of ArchiveArm: the message is counted as archived when the
\* decision is taken instead of when the delete returned.
ArchiveArm_counted(item) ==
    IF opts.confirm
    THEN /\ pc' = "archive"
         /\ log' = Append(log, Ev(item.id, "archive"))
         /\ archived' = archived + 1
         /\ UNCHANGED <<kept, parse_err, move_err>>
    ELSE /\ pc' = "loop"
         /\ log' = Append(log, Ev(item.id, "dry_run"))
         /\ UNCHANGED countVars

\* Variant of ArchiveArm: without --confirm the message is counted as kept.
ArchiveArm_drykept(item) ==
    IF opts.confirm
    THEN /\ pc' = "archive"
         /\ log' = Append(log, Ev(item.id, "archive"))
         /\ UNCHANGED countVars
    ELSE /\ pc' = "loop"
         /\ log' = Append(log, Ev(item.id, "dry_run"))
         /\ kept' = kept + 1
         /\ UNCHANGED <<archived, parse_err, move_err>>

\* should_archive said yes: "Archive ..." is logged, and only with --confirm
\* is anything done.
ArchiveArm(item) ==
    /\ IF opts.confirm
       THEN pc' = "archive" /\ log' = Append(log, Ev(item.id, "archive"))
       ELSE pc' = "loop" /\ log' = Append(log, Ev(item.id, "dry_run"))
    /\ UNCHANGED countVars

\* One turn of the for loop up to the point where it archives: the next item,
\* MailInfo::new, should_archive, and the arms that only count.
Visit ==
    /\ pc = "loop"
    /\ idx < Total
    /\ idx' = idx + 1
    /\ \E item \in MailInfo_new(idx + 1, criteria) :
        /\ mail' = item
        /\ IF item.kind \in ParseErrors THEN ParseErrorArm(item)
           ELSE IF should_archive(criteria, item) THEN ArchiveArm(item)
           ELSE KeptArm(item)
    /\ UNCHANGED <<opts, sinkVars, file_existed, dir, store, criteria,
                   filtered>>

\* Variant of MoveError: the error is propagated out of main with ?.
MoveError_abort(m, e) ==
    /\ log' = Append(log, Ev(m, e))
    /\ pc' = "failed"
    /\ UNCHANGED countVars

\* Variant of MoveError: the error is logged and not counted.
MoveError_uncounted(m, e) ==
    /\ log' = Append(log, Ev(m, e))
    /\ pc' = "loop"
    /\ UNCHANGED countVars

\* The Err arm of the match on `deleted`: a step of the move failed.
MoveError(m, e) ==
    /\ move_err' = move_err + 1
    /\ log' = Append(log, Ev(m, e))
    /\ pc' = "loop"
    /\ UNCHANGED <<archived, kept, parse_err>>

\* What opening the message and running formail on it can give: a failure
\* (the open, the spawn, or a failing exit status), or the filtered message.
Formail == [ok : {FALSE}, len : {0}] \cup [ok : {TRUE}, len : Lengths]

\* Variant of AfterFormail: the exit status of formail is not looked at and
\* whatever it printed is written.
AfterFormail_noensure(m, out) ==
    /\ filtered' = IF out.ok THEN out.len ELSE 1
    /\ log' = Append(log, Ev(m, IF out.ok THEN "formail_ok" ELSE "formail_failed"))
    /\ pc' = "write"
    /\ UNCHANGED countVars

\* The ? and the ensure! of MailInfo::archive: only a successful formail run
\* gets to the write.
AfterFormail(m, out) ==
    IF out.ok
    THEN /\ filtered' = out.len
         /\ log' = Append(log, Ev(m, "formail_ok"))
         /\ pc' = "write"
         /\ UNCHANGED countVars
    ELSE /\ MoveError(m, "formail_failed")
         /\ UNCHANGED filtered

\* Variant of Transform: with --remove nothing is to be written, so formail
\* is not run and the message goes straight to the delete.
Transform_remove_skips ==
    /\ pc = "archive"
    /\ IF dest = "discard"
       THEN /\ pc' = "delete"
            /\ UNCHANGED <<filtered, log, countVars>>
       ELSE \E out \in Formail : AfterFormail(mail.id, out)
    /\ UNCHANGED <<opts, sinkVars, file_existed, dir, store, criteria,
                   idx, mail>>

\* MailInfo::archive up to the ensure!: open the message, run formail on it.
Transform ==
    /\ pc = "archive"
    /\ \E out \in Formail : AfterFormail(mail.id, out)
    /\ UNCHANGED <<opts, sinkVars, file_existed, dir, store, criteria,
                   idx, mail>>

\* Variant of AfterWrite: the result of archive() is dropped and dir.delete
\* is called whatever it was.
AfterWrite_unchecked(m, ok) ==
    /\ log' = Append(log, Ev(m, IF ok THEN "write_ok" ELSE "write_failed"))
    /\ pc' = "delete"
    /\ UNCHANGED countVars

\* Variant of AfterWrite: a failed write_all ends main with the error.
AfterWrite_fatal(m, ok) ==
    IF ok
    THEN /\ log' = Append(log, Ev(m, "write_ok"))
         /\ pc' = "delete"
         /\ UNCHANGED countVars
    ELSE /\ log' = Append(log, Ev(m, "write_failed"))
         /\ pc' = "failed"
         /\ UNCHANGED countVars

\* The ? on write_all and the and_then in main: dir.delete is reached only
\* when archive() returned Ok.
AfterWrite(m, ok) ==
    IF ok
    THEN /\ log' = Append(log, Ev(m, "write_ok"))
         /\ pc' = "delete"
         /\ UNCHANGED countVars
    ELSE MoveError(m, "write_failed")

\* dest.write_all(&filtered.stdout) at the end of MailInfo::archive.
Write ==
    /\ pc = "write"
    /\ \E r \in DestWriteAll(dest, hdr_pending, enc, buf, file,
                             Entry(mail.id, "full", filtered)) :
        /\ hdr_pending' = r.hdr
        /\ enc' = r.enc
        /\ buf' = r.buf
        /\ file' = r.file
        /\ AfterWrite(mail.id, r.ok)
    /\ UNCHANGED <<opts, dest, file_exists, file_existed, dir, store,
                   criteria, idx, mail, filtered>>

\* Variant of AfterDelete: a failed dir.delete is tried again.
AfterDelete_retry(m, ok) ==
    IF ok
    THEN /\ archived' = archived + 1
         /\ log' = Append(log, Ev(m, "delete_ok"))
         /\ pc' = "loop"
         /\ UNCHANGED <<kept, parse_err, move_err>>
    ELSE /\ log' = Append(log, Ev(m, "delete_failed"))
         /\ pc' = "delete"
         /\ UNCHANGED countVars

\* Variant of AfterDelete: the result of dir.delete is dropped and the message
\* counted as archived.
AfterDelete_ignored(m, ok) ==
    /\ archived' = archived + 1
    /\ log' = Append(log, Ev(m, IF ok THEN "delete_ok" ELSE "delete_failed"))
    /\ pc' = "loop"
    /\ UNCHANGED <<kept, parse_err, move_err>>

\* The match on `deleted` after dir.delete returned.
AfterDelete(m, ok) ==
    IF ok
    THEN /\ archived' = archived + 1
         /\ log' = Append(log, Ev(m, "delete_ok"))
         /\ pc' = "loop"
         /\ UNCHANGED <<kept, parse_err, move_err>>
    ELSE MoveError(m, "delete_failed")

\* dir.delete(&mail.id): the message leaves the maildir, or the call fails and
\* it stays.
Delete ==
    /\ pc = "delete"
    /\ \E deleted \in BOOLEAN :
        /\ store' = IF deleted THEN store \ {mail.id} ELSE store
        /\ AfterDelete(mail.id, deleted)
    /\ UNCHANGED <<opts, sinkVars, file_existed, dir, criteria, idx,
                   mail, filtered>>

\* The iterator is exhausted: the summary is logged, main returns Ok(()) and
\* the destination is dropped.
Finish ==
    /\ pc = "loop"
    /\ idx = Total
    /\ pc' = "done"
    /\ file' \in DestDrop(dest, hdr_pending, enc, buf, file)
    /\ buf' = <<>>
    /\ enc' = <<>>
    /\ UNCHANGED <<opts, dest, hdr_pending, file_exists, file_existed, dir, store,
                   criteria, idx, mail, filtered, log, countVars>>

Next == Check \/ Destination \/ MakeCriteria \/ Visit \/ Transform \/ Write
        \/ Delete \/ Finish

Spec == Init /\ [][Next]_vars

\* The run is one thread of control that nothing suspends: it keeps stepping.
FairSpec == Spec /\ WF_vars(Next)

\* ------------------------------------------------------------ properties
\* All the entries the maildir held when the run started.
Messages == 1..(dir.ncur + dir.nnew)
\* The whole of message m was handed to the OS write call on the archive.
InFile(m) == \E i \in 1..Len(file) : file[i].id = m /\ file[i].part = "full"
\* Entries of message m, whole or partial, anywhere in the destination.
Held(m) == {i \in 1..Len(enc \o buf \o file) : (enc \o buf \o file)[i].id = m}
\* should_archive said yes for m.
Retiring(m) == Logged(m, "archive") \/ Logged(m, "dry_run")

\* C1: dir.delete is called for a message only in a state in which the
\* write_all of that message's formail output has already returned Ok; it is
\* never called before or without it.
C1_DeleteOnlyAfterWrite ==
    [][\A m \in Ids : Deletes(m)' > Deletes(m) => Logged(m, "write_ok")]_vars

C1_Witness == \E m \in Ids : Logged(m, "write_ok") /\ Deletes(m) = 1

\* C2: with an archive file and --confirm, a message that was deleted from
\* the maildir has had all its bytes handed to the OS write call on the
\* archive file, in every state (so wherever the run is cut short, each
\* message is in the maildir or in the file).
C2_DeletedIsInFile ==
    (opts.confirm /\ dest \in {"plain", "gz"}) =>
        \A m \in Messages : m \in store \/ InFile(m)

\* C3: within one run dir.delete is called at most once with any identity.
C3_AtMostOneDelete == \A m \in Ids : Deletes(m) <= 1

C3_Witness ==
    pc = "done" /\ \E m \in Ids : Logged(m, "delete_failed") /\ Deletes(m) = 1

\* C4: for the MailInfo just resolved, should_archive said yes exactly when
\* date_resolved <= before (equality included), and must_seen is false or
\* seen is true, and flagged is false; so it said no for everything newer
\* than the cutoff, everything flagged, and everything unseen under must_seen.
C4_ShouldArchiveRule ==
    mail.kind = "ok" =>
        /\ Retiring(mail.id) <=>
              (/\ mail.date_resolved <= criteria.before
               /\ (criteria.must_seen = FALSE \/ mail.seen = TRUE)
               /\ mail.flagged = FALSE)
        /\ Logged(mail.id, "kept") <=> ~Retiring(mail.id)
        /\ mail.date_resolved > criteria.before => ~Retiring(mail.id)
        /\ mail.flagged => ~Retiring(mail.id)
        /\ (criteria.must_seen /\ ~mail.seen) => ~Retiring(mail.id)

C4_Witness ==
    /\ mail.kind = "ok"
    /\ mail.date_resolved = criteria.before
    /\ criteria.must_seen /\ mail.seen /\ ~mail.flagged
    /\ Retiring(mail.id)

\* C5: without --confirm nothing is changed from the start of the run to its
\* end: no message leaves the maildir, and the archive is neither created nor
\* appended to.
C5_DryRunChangesNothing ==
    ~opts.confirm =>
        /\ store = Messages
        /\ file = <<>>
        /\ file_exists = file_existed

\* The step adds an event e of message m to the log.
Added(m, e) == Count(m, e)' > Count(m, e)
\* Whole copies of message m anywhere in the destination.
HeldWhole(m) ==
    Cardinality({i \in Held(m) : (enc \o buf \o file)[i].part = "full"})
Terminal == {"done", "failed", "panicked"}
Decisions == {"parse_err", "kept", "dry_run", "archive"}
\* How often the loop body was entered for entry m.
Visits(m) == Cardinality({i \in 1..Len(log) : log[i].id = m /\ log[i].ev \in Decisions})

\* C6: with --confirm, when formail or the write fails for a qualifying
\* message, dir.delete is never called for it, it stays in the maildir, the
\* failing step adds one to move_err and nothing to archived; and when it is
\* formail that fails, nothing of the message is given to the destination.
C6_FailedMoveState ==
    \A m \in Ids :
        /\ (Logged(m, "formail_failed") \/ Logged(m, "write_failed")) =>
              /\ opts.confirm /\ Logged(m, "archive")
              /\ Deletes(m) = 0
              /\ m \in store
        /\ Logged(m, "formail_failed") =>
              /\ Held(m) = {}
              /\ ~Logged(m, "write_ok") /\ ~Logged(m, "write_failed")

C6_FailedMoveStep ==
    \A m \in Ids :
        /\ (Added(m, "formail_failed") \/ Added(m, "write_failed")) =>
              /\ move_err' = move_err + 1
              /\ UNCHANGED <<archived, kept, parse_err, store>>
        /\ Added(m, "formail_failed") => UNCHANGED sinkVars

C6_FailedMoveKeepsMessage == []C6_FailedMoveState /\ [][C6_FailedMoveStep]_vars

C6_Witness ==
    /\ pc = "done" /\ opts.confirm /\ move_err = 2
    /\ \E m, n \in store : Logged(m, "formail_failed") /\ Logged(n, "write_failed")

\* C7: with --confirm, when the write succeeded and dir.delete fails, the
\* step adds one to move_err and nothing to archived, and from then to the
\* end of the run the message is both written to the destination (once) and
\* still in the maildir.
C7_DeleteFailedState ==
    \A m \in Ids :
        Logged(m, "delete_failed") =>
            /\ opts.confirm
            /\ m \in store
            /\ Count(m, "write_ok") = 1 /\ ~Logged(m, "write_failed")
            /\ ~Logged(m, "delete_ok")
            /\ (dest \in {"plain", "gz"} /\ pc \notin Terminal) => HeldWhole(m) = 1

C7_DeleteFailedStep ==
    \A m \in Ids :
        Added(m, "delete_failed") =>
            /\ Logged(m, "write_ok")
            /\ move_err' = move_err + 1
            /\ UNCHANGED <<archived, kept, parse_err, store>>

C7_DeleteFailureKeepsBoth == []C7_DeleteFailedState /\ [][C7_DeleteFailedStep]_vars

C7_Witness ==
    /\ pc = "done" /\ opts.confirm /\ move_err = 1 /\ archived = 0
    /\ \E m \in store : Logged(m, "delete_failed") /\ Logged(m, "write_ok") /\ InFile(m)

\* C8: when resolving an item fails, the step adds exactly one to parse_err
\* and leaves archived, kept and move_err alone, and the message is never
\* written to the destination nor deleted from the maildir.
C8_ParseErrorState ==
    \A m \in Ids :
        Logged(m, "parse_err") =>
            /\ m \in store
            /\ Held(m) = {}
            /\ \A i \in 1..Len(log) : log[i].id = m => log[i].ev = "parse_err"
            /\ Count(m, "parse_err") = 1

C8_ParseErrorStep ==
    \A m \in Ids :
        Added(m, "parse_err") =>
            /\ mail'.kind \in ParseErrors /\ mail'.id = m
            /\ parse_err' = parse_err + 1
            /\ UNCHANGED <<archived, kept, move_err, store, sinkVars>>

C8_ParseErrorOnlyCounts == []C8_ParseErrorState /\ [][C8_ParseErrorStep]_vars

C8_Witness ==
    /\ pc = "done" /\ parse_err = 1 /\ kept = 0 /\ archived = 0 /\ move_err = 0
    /\ \E m \in store : Logged(m, "parse_err") /\ mail.id = m /\ mail.kind = "broken_date"

\* C9: once the loop is reached, the run always gets to the summary and
\* exits with success, whatever failed for single messages: main fails or
\* panics only before the first item, and at the end every item the
\* traversal yielded went through the loop body exactly once, no step of it
\* having been tried twice.
C9_EveryItemOnce ==
    \A m \in Ids :
        /\ Visits(m) = IF m <= Total THEN 1 ELSE 0
        /\ Count(m, "formail_ok") + Count(m, "formail_failed") <= 1
        /\ Count(m, "write_ok") + Count(m, "write_failed") <= 1
        /\ Deletes(m) <= 1

C9_FailuresNeverAbort ==
    /\ (pc = "loop") ~> (pc = "done")
    /\ [](pc \in {"failed", "panicked"} => log = <<>>)
    /\ [](pc = "done" => C9_EveryItemOnce)

C9_Witness ==
    /\ pc = "done" /\ parse_err > 0 /\ move_err > 0
    /\ \E m \in Ids : Logged(m, "write_failed") \/ Logged(m, "delete_failed")

\* C10: with --confirm, a message that resolved, satisfied the policy and
\* whose formail run, write and delete all succeeded is from then to the end
\* of the run out of the maildir, was accepted by the destination exactly
\* once (which never holds it twice, and holds it once while it is open), and
\* was counted once in archived and in no other counter.
C10_ArchivedState ==
    /\ \A m \in Ids :
        Logged(m, "delete_ok") =>
            /\ opts.confirm
            /\ m \notin store
            /\ Visits(m) = 1 /\ Logged(m, "archive") /\ Logged(m, "formail_ok")
            /\ Count(m, "write_ok") = 1 /\ Count(m, "delete_ok") = 1
            /\ ~Logged(m, "write_failed") /\ ~Logged(m, "delete_failed")
            /\ HeldWhole(m) <= 1
            /\ (dest \in {"plain", "gz"} /\ pc \notin Terminal) => HeldWhole(m) = 1
    /\ archived = Cardinality({m \in Ids : Logged(m, "delete_ok")})

C10_ArchivedStep ==
    \A m \in Ids :
        Added(m, "delete_ok") =>
            /\ archived' = archived + 1
            /\ UNCHANGED <<kept, parse_err, move_err>>
            /\ m \in store /\ m \notin store'

C10_SuccessfulMoveArchivesOnce == []C10_ArchivedState /\ [][C10_ArchivedStep]_vars

C10_Witness ==
    /\ pc = "done" /\ opts.confirm /\ dest = "plain" /\ archived = 1
    /\ \E m \in Ids : Logged(m, "delete_ok") /\ m \notin store /\ InFile(m)

\* The events the log holds for entry m, in order.
RECURSIVE EventsOf(_, _)
EventsOf(l, m) ==
    IF l = <<>> THEN <<>>
    ELSE IF Head(l).id = m THEN <<Head(l).ev>> \o EventsOf(Tail(l), m)
    ELSE EventsOf(Tail(l), m)

\* C11: with or without --confirm, a resolved message for which the policy
\* says no (too new, flagged, or unseen under must_seen) ends in the kept arm:
\* the step adds exactly one to kept and nothing else, and the message is
\* never given to formail, written to the destination or deleted; a flagged
\* message in particular is never deleted, whatever its age and seen mark.
C11_KeptState ==
    /\ \A m \in Ids :
        Logged(m, "kept") =>
            /\ EventsOf(log, m) = <<"kept">>
            /\ m \in store
            /\ Held(m) = {}
            /\ Deletes(m) = 0
    /\ mail.kind = "ok" =>
        /\ (\/ mail.date_resolved > criteria.before
            \/ mail.flagged
            \/ (criteria.must_seen /\ ~mail.seen)) => Logged(mail.id, "kept")
        /\ mail.flagged => (mail.id \in store /\ Deletes(mail.id) = 0)

C11_KeptStep ==
    \A m \in Ids :
        Added(m, "kept") =>
            /\ mail'.kind = "ok" /\ mail'.id = m
            /\ kept' = kept + 1
            /\ UNCHANGED <<archived, parse_err, move_err, store, sinkVars>>

C11_PolicyNoIsKept == []C11_KeptState /\ [][C11_KeptStep]_vars

C11_Witness ==
    /\ pc = "done" /\ opts.confirm /\ kept = 1
    /\ mail.kind = "ok" /\ mail.flagged /\ mail.seen
    /\ mail.date_resolved < criteria.before
    /\ mail.id \in store /\ Logged(mail.id, "kept")

\* Entries whose log holds event e.
With(e) == {m \in Ids : Logged(m, e)}

\* C12: without --confirm a message that satisfies the policy is only logged:
\* the step changes none of archived, kept, parse_err and move_err (nor the
\* maildir or the destination), so the message is in neither the archived nor
\* the kept tally.
C12_DryRunState ==
    /\ \A m \in Ids :
        Logged(m, "dry_run") =>
            /\ ~opts.confirm
            /\ EventsOf(log, m) = <<"dry_run">>
            /\ m \in store
    /\ ~opts.confirm =>
        /\ archived = 0 /\ move_err = 0
        /\ kept = Cardinality(With("kept"))
        /\ parse_err = Cardinality(With("parse_err"))
        /\ \A m \in Ids : Retiring(m) => Logged(m, "dry_run")

C12_DryRunStep ==
    \A m \in Ids :
        Added(m, "dry_run") =>
            /\ mail'.kind = "ok" /\ mail'.id = m
            /\ UNCHANGED <<countVars, store, sinkVars>>

C12_DryRunOnlyLogs == []C12_DryRunState /\ [][C12_DryRunStep]_vars

C12_Witness ==
    /\ pc = "done" /\ ~opts.confirm
    /\ Logged(1, "dry_run") /\ Logged(2, "kept")
    /\ archived = 0 /\ kept = 1 /\ parse_err = 0 /\ move_err = 0

\* C13: the entries of new/ are visited only when --new is given (and then
\* all of them are, after those of cur/, which always are); must_seen is
\* fixed for the whole run as the negation of --new, so with --new an old
\* unflagged message qualifies whatever its seen mark, also one of cur/.
C13_UnreadState ==
    /\ \A m \in Ids :
        /\ (InNew(m) /\ ~opts.new) => (EventsOf(log, m) = <<>> /\ m \in store)
        /\ (InNew(m) /\ Visits(m) > 0) => opts.new
        /\ pc = "done" => Visits(m) = IF InCur(m) \/ (InNew(m) /\ opts.new) THEN 1 ELSE 0
    /\ criteria.state = "built" => criteria.must_seen = ~opts.new
    /\ (opts.new /\ mail.kind = "ok" /\ ~mail.flagged
          /\ mail.date_resolved <= criteria.before) => Retiring(mail.id)

C13_PolicyFixed ==
    /\ opts' = opts
    /\ criteria.state = "built" => criteria' = criteria

C13_UnreadOnlyOnOptIn == []C13_UnreadState /\ [][C13_PolicyFixed]_vars

C13_Witness ==
    /\ opts.new /\ dir.nnew > 0
    /\ mail.kind = "ok" /\ InCur(mail.id) /\ ~mail.seen
    /\ Retiring(mail.id)

\* C14: with --confirm and without --new, a message that is at least as old
\* as the cutoff, unflagged and not seen is kept: it stays in the maildir,
\* nothing of it is given to the destination, and kept was incremented for it.
C14_OldUnseenState ==
    (/\ opts.confirm /\ ~opts.new
     /\ mail.kind = "ok" /\ ~mail.seen /\ ~mail.flagged
     /\ mail.date_resolved <= criteria.before) =>
        /\ EventsOf(log, mail.id) = <<"kept">>
        /\ mail.id \in store
        /\ Held(mail.id) = {}
        /\ kept >= 1

C14_OldUnseenStep ==
    (/\ opts.confirm /\ ~opts.new
     /\ mail' # mail
     /\ mail'.kind = "ok" /\ ~mail'.seen /\ ~mail'.flagged
     /\ mail'.date_resolved <= criteria.before) =>
        /\ kept' = kept + 1
        /\ UNCHANGED <<archived, parse_err, move_err, store, sinkVars>>

C14_OldUnseenIsKept == []C14_OldUnseenState /\ [][C14_OldUnseenStep]_vars

C14_Witness ==
    /\ pc = "done" /\ opts.confirm /\ ~opts.new /\ opts.age = 30
    /\ mail.kind = "ok" /\ ~mail.seen /\ ~mail.flagged
    /\ mail.date_resolved < criteria.before
    /\ Logged(mail.id, "kept") /\ mail.id \in store /\ kept = 1

\* C15 (as claimed): a failed write_all on the destination is fatal to the
\* run, as the failure to open the archive is: no run in which a write failed
\* gets to the summary and exits with success.
C15_WriteFailureAborts ==
    pc = "done" => \A m \in Ids : ~Logged(m, "write_failed")

\* C15 (amended): a failed write_all is a move error of the message being
\* written: the step adds one to move_err and goes back to the loop, the run
\* goes on to the summary and exits with success; main returns an error only
\* before the destination exists (bad options, archive not opened).
C15_WriteFailedStep ==
    \A m \in Ids :
        Added(m, "write_failed") =>
            /\ pc' = "loop"
            /\ move_err' = move_err + 1
            /\ UNCHANGED <<archived, kept, parse_err, store, idx>>

C15_WriteFailureIsIsolated ==
    /\ [][C15_WriteFailedStep]_vars
    /\ (\E m \in Ids : Logged(m, "write_failed")) ~> (pc = "done")
    /\ [](pc = "failed" => (dest = "none" /\ log = <<>>))

C15_Witness ==
    /\ pc = "done"
    /\ Logged(1, "write_failed") /\ 1 \in store
    /\ Visits(2) = 1

\* Exactly one of --archive and --remove is given and the maildir exists.
ValidOpts == opts.maildir_is_dir /\ ((opts.archive # "none") # opts.remove)

\* C16: when the options are invalid (not exactly one of --archive and
\* --remove, or the maildir missing) or the archive cannot be opened, main
\* returns an error before any message is resolved, counted, written or
\* deleted: nothing goes on past the check with invalid options or without a
\* destination, and a failed run has touched no message.
C16_SetupFailureState ==
    /\ (~ValidOpts /\ pc # "check") => pc = "failed"
    /\ pc \notin {"check", "destination", "failed"} =>
          /\ dest # "none"
          /\ dest = "discard" <=> opts.remove
          /\ dest \in {"plain", "gz"} => file_exists
    /\ pc = "failed" =>
          /\ idx = 0 /\ log = <<>> /\ mail = NoMail
          /\ archived = 0 /\ kept = 0 /\ parse_err = 0 /\ move_err = 0
          /\ store = Messages
          /\ enc = <<>> /\ buf = <<>> /\ file = <<>>

C16_SetupFailureFinal == pc = "failed" => UNCHANGED vars

C16_SetupFailureAborts == []C16_SetupFailureState /\ [][C16_SetupFailureFinal]_vars

C16_Witness ==
    /\ pc = "failed" /\ ValidOpts /\ opts.archive = "mbox" /\ opts.confirm
    /\ dir.ncur > 0 /\ dest = "none"

\* How often the file holds the gzip header (p = "hdr") or trailer ("trl").
Marks(p) == Cardinality({i \in 1..Len(file) : file[i].part = p})

\* C17: on every exit of a run that built the destination (the return after
\* the summary as the unwinding of a panic) the destination has been
\* finalized once, after the last write: everything write_all accepted is
\* flushed to the file, and for a .gz archive the stream's trailer is written
\* once, at the end.
C17_FinalizedOnExit ==
    (pc \in {"done", "panicked"} /\ dest \in {"plain", "gz"}) =>
        /\ \A m \in Ids : Logged(m, "write_ok") => InFile(m)
        /\ dest = "gz" =>
              /\ Marks("hdr") = 1 /\ Marks("trl") = 1
              /\ file[Len(file)].part = "trl"

\* C18: for every --age the cutoff is now - age * 86400 seconds since the
\* epoch, built once before the first message is evaluated: every state past
\* Criteria::new has a built criteria with that value.
C18_CutoffIsNowMinusAge ==
    pc \notin {"check", "destination", "criteria", "failed"} =>
        /\ criteria.state = "built"
        /\ criteria.before = NowSecs - opts.age * 86400

Tally == archived + kept + parse_err + move_err

\* C19: no step decrements a counter, a step adds one to at most one of
\* archived, kept, parse_err and move_err, and each item is counted at most
\* once; so at the end of a run with --confirm the four add up to the number
\* of items the traversal yielded, and at the end of a dry run to that number
\* less the messages that satisfied the policy, with archived = 0 and
\* move_err = 0.
C19_TallyState ==
    /\ archived = Cardinality(With("delete_ok"))
    /\ kept = Cardinality(With("kept"))
    /\ parse_err = Cardinality(With("parse_err"))
    /\ move_err = Cardinality(With("formail_failed") \cup With("write_failed")
                              \cup With("delete_failed"))
    /\ \A m \in Ids :
        Cardinality({e \in {"delete_ok", "kept", "parse_err", "formail_failed",
                            "write_failed", "delete_failed"} : Logged(m, e)}) <= 1
    /\ pc = "done" =>
        IF opts.confirm THEN Tally = Total
        ELSE /\ Tally = Total - Cardinality(With("dry_run"))
             /\ archived = 0 /\ move_err = 0

C19_TallyStep ==
    /\ archived' >= archived /\ kept' >= kept
    /\ parse_err' >= parse_err /\ move_err' >= move_err
    /\ Tally' \in {Tally, Tally + 1}

C19_CountersAddUp == []C19_TallyState /\ [][C19_TallyStep]_vars

C19_Witness ==
    /\ pc = "done" /\ ~opts.confirm /\ Total = 2
    /\ Cardinality(With("dry_run")) = 1 /\ Tally = 1

\* C20: with --remove and --confirm formail is still run, once, for every
\* qualifying message, and dir.delete is called for a message only after
\* formail succeeded for it (and the write into io::sink() returned); when
\* formail fails the step adds one to move_err and the message stays in the
\* maildir, although nothing was to be archived.
C20_RemoveState ==
    dest = "discard" =>
        /\ opts.remove /\ enc = <<>> /\ buf = <<>> /\ file = <<>>
        /\ \A m \in Ids :
            /\ (Logged(m, "archive") /\ (pc = "done" \/ mail.id # m)) =>
                  Count(m, "formail_ok") + Count(m, "formail_failed") = 1
            /\ Deletes(m) > 0 =>
                  EventsOf(log, m)[2] = "formail_ok" /\ EventsOf(log, m)[3] = "write_ok"
            /\ Logged(m, "formail_failed") =>
                  /\ EventsOf(log, m) = <<"archive", "formail_failed">>
                  /\ m \in store
            /\ ~Logged(m, "write_failed")

C20_RemoveStep ==
    dest = "discard" =>
        \A m \in Ids :
            /\ Added(m, "formail_failed") =>
                  /\ move_err' = move_err + 1
                  /\ UNCHANGED <<archived, kept, parse_err, store>>
            /\ Deletes(m)' > Deletes(m) => Logged(m, "formail_ok")

C20_RemoveStillFilters == []C20_RemoveState /\ [][C20_RemoveStep]_vars

C20_Witness ==
    /\ pc = "done" /\ dest = "discard" /\ opts.confirm
    /\ Logged(1, "formail_failed") /\ 1 \in store
    /\ Logged(2, "delete_ok") /\ 2 \notin store
    /\ move_err = 1 /\ archived = 1
====
